---- MODULE Spec2Model ----
(***************************************************************************)
(* A model of pykitops' Kitfile: the pydantic schema of                    *)
(* kitops/modelkit/pydantic_kit.py and the assembler of                    *)
(* kitops/modelkit/kitfile.py (build, load, to_yaml, save, attribute       *)
(* assignment).                                                            *)
(*                                                                         *)
(* Python values are tagged records.  A Python str is a sequence of        *)
(* tokens: an ordinary string is one token, a path is its pathlib parts    *)
(* (the root "/" first when it is absolute).                               *)
(***************************************************************************)
EXTENDS Integers, Sequences, FiniteSets, TLC

VARIABLES
    kit,    \* the Kitfile instance the caller holds
    file,   \* the text of the file at the Kitfile's path
    ret,    \* the outcome of the last step
    arg     \* the input drawn for the path resolver's specification

vars == <<kit, file, ret, arg>>

(***************************************************************************)
(* Bounds of the model.                                                    *)
(***************************************************************************)
\* longest list of entries (code, datasets, docs, parts) an input carries
MaxEntries == 1
\* most path components after the root in the paths of the resolver's inputs
MaxPathLen == 3

(***************************************************************************)
(* Python values.                                                          *)
(***************************************************************************)
None == [t |-> "none"]
Str(s) == [t |-> "str", v |-> s]
Float(i, f) == [t |-> "float", i |-> i, f |-> f]
Integer(n) == [t |-> "int", v |-> n]
Bool(b) == [t |-> "bool", v |-> b]
\* a bytes object, by the characters its UTF-8 decoding has
Bytes(s) == [t |-> "bytes", v |-> s]
Tuple(items) == [t |-> "tuple", items |-> items]
List(items) == [t |-> "list", items |-> items]
\* a dict: its items, <<key, value>>, in insertion order
Dict(items) == [t |-> "dict", items |-> items]
\* an instance of a pydantic model: every field's value in declared order,
\* and __pydantic_fields_set__
Model(cls, items, fset) == [t |-> "model", cls |-> cls, items |-> items, set |-> fset]

Keys(items) == {items[i][1] : i \in DOMAIN items}
Has(items, k) == k \in Keys(items)
Get(items, k) == items[CHOOSE i \in DOMAIN items : items[i][1] = k][2]
Put(items, k, v) ==
    IF Has(items, k)
    THEN [i \in DOMAIN items |-> IF items[i][1] = k THEN <<k, v>> ELSE items[i]]
    ELSE Append(items, <<k, v>>)

\* bool(value), as any() in check_attrs applies it
Truthy(v) ==
    CASE v.t = "none" -> FALSE
      [] v.t \in {"str", "bytes"} -> v.v # <<>>
      [] v.t = "int" -> v.v # 0
      [] v.t = "bool" -> v.v
      [] v.t \in {"list", "tuple"} -> v.items # <<>>
      [] v.t = "dict" -> v.items # <<>>
      [] OTHER -> TRUE

\* Op on the value of e, which is computed once
With(e, Op(_)) == CHOOSE r \in {Op(x) : x \in {e}} : TRUE

\* the outcome of a validation or a call
Ok(v) == [ok |-> TRUE, val |-> v]
Err(e) == [ok |-> FALSE, err |-> e]

(***************************************************************************)
(* The filesystem and pathlib.                                             *)
(***************************************************************************)
\* Path.cwd(), as parts
Cwd == <<"/", "w">>
\* the directories that exist, each by its components below the root
Existing == {<<>>, <<"w">>, <<"w", "m">>, <<"o">>}

IsAbsolute(p) == p # <<>> /\ p[1] = "/"

\* os.stat's walk: from dir, component by component; every directory on the
\* way has to exist, ".." of the root is the root.  The directory reached.
RECURSIVE Walk(_, _)
Walk(dir, comps) ==
    IF dir \notin Existing THEN [ok |-> FALSE, dir |-> dir]
    ELSE IF comps = <<>> THEN [ok |-> TRUE, dir |-> dir]
    ELSE LET c == Head(comps) IN
         IF c = "." THEN Walk(dir, Tail(comps))
         ELSE IF c = ".."
              THEN Walk(IF dir = <<>> THEN <<>> ELSE SubSeq(dir, 1, Len(dir) - 1), Tail(comps))
              ELSE Walk(Append(dir, c), Tail(comps))

Resolve(p) == IF IsAbsolute(p) THEN Walk(<<>>, Tail(p)) ELSE Walk(Tail(Cwd), p)

\* Path(p).exists()
Exists(p) == Resolve(p).ok

\* PurePath.relative_to is lexical: base's parts have to start p's parts
IsRelativeTo(p, base) == Len(p) >= Len(base) /\ SubSeq(p, 1, Len(base)) = base
RelativeTo(p, base) == SubSeq(p, Len(base) + 1, Len(p))
\* as_posix of a relative path; the empty one is "."
AsPosix(parts) == IF parts = <<>> THEN <<".">> ELSE parts

validate_path_prefix_unchecked(p) ==
    IF ~Exists(p) THEN Err("PathNotFound")
    ELSE IF IsAbsolute(p) /\ IsRelativeTo(p, Cwd) THEN Ok(AsPosix(RelativeTo(p, Cwd)))
    ELSE Ok(p)

validate_path_not_rewritten(p) ==
    IF ~Exists(p) THEN Err("PathNotFound")
    ELSE IF IsAbsolute(p) /\ ~IsRelativeTo(p, Cwd) THEN Err("InvalidPath")
    ELSE Ok(p)

\* BasePathModel.validate_path on the value of the path field
validate_path(p) ==
    IF ~Exists(p) THEN Err("PathNotFound")
    ELSE IF IsAbsolute(p)
         THEN IF IsRelativeTo(p, Cwd)
              THEN Ok(AsPosix(RelativeTo(p, Cwd)))
              ELSE Err("InvalidPath")
         ELSE Ok(p)

(***************************************************************************)
(* The schema of pydantic_kit.py.                                          *)
(***************************************************************************)
PathClasses == {"CodeEntry", "DatasetEntry", "DocsEntry", "ModelPart", "ModelSection"}

\* the kinds of field annotation
StrK == [k |-> "str", coerce |-> FALSE]
NumStrK == [k |-> "str", coerce |-> TRUE]
AuthorsK == [k |-> "authors"]
AnyK == [k |-> "any"]
ListK(cls) == [k |-> "list", cls |-> cls]
ModelK(cls) == [k |-> "model", cls |-> cls]
OptModelK(cls) == [k |-> "optmodel", cls |-> cls]

Req(name, kind) == [name |-> name, kind |-> kind, required |-> TRUE, default |-> None]
Opt(name, kind, default) == [name |-> name, kind |-> kind, required |-> FALSE, default |-> default]

\* model_fields of each class, in declared order
Schema(cls) ==
    CASE cls = "Package" ->
           <<Req("name", StrK), Req("version", NumStrK), Req("description", StrK),
             Req("authors", AuthorsK)>>
      [] cls = "CodeEntry" ->
           <<Req("path", StrK), Req("description", StrK), Req("license", StrK)>>
      [] cls = "DatasetEntry" ->
           <<Req("name", StrK), Req("path", StrK), Req("description", StrK),
             Req("license", StrK)>>
      [] cls = "DocsEntry" ->
           <<Req("description", StrK), Req("path", StrK)>>
      [] cls = "ModelPart" ->
           <<Req("name", StrK), Req("path", StrK), Req("type", StrK)>>
      [] cls = "ModelSection" ->
           <<Req("name", StrK), Req("path", StrK), Req("framework", StrK),
             Req("version", NumStrK), Req("description", StrK), Req("license", StrK),
             Opt("parts", ListK("ModelPart"), List(<<>>)), Opt("parameters", AnyK, None)>>
      [] cls = "Kitfile" ->
           <<Req("manifestVersion", NumStrK), Req("package", ModelK("Package")),
             Opt("code", ListK("CodeEntry"), List(<<>>)),
             Opt("datasets", ListK("DatasetEntry"), List(<<>>)),
             Opt("docs", ListK("DocsEntry"), List(<<>>)),
             Opt("model", OptModelK("ModelSection"), None)>>

FieldNames(cls) == [i \in DOMAIN Schema(cls) |-> Schema(cls)[i].name]

\* ALLOWED_KEYS = set(PydanticKitfile.model_fields)
ALLOWED_KEYS == {Schema("Kitfile")[i].name : i \in DOMAIN Schema("Kitfile")}

\* str(number)
NumRepr(v) ==
    IF v.t = "float" THEN ToString(v.i) \o "." \o ToString(v.f) ELSE ToString(v.v)

ValidateStr_number_kept(v, coerce) ==
    IF v.t = "str" THEN Ok(v)
    ELSE IF v.t = "bytes" THEN Ok(Str(v.v))
    ELSE IF coerce /\ v.t \in {"float", "int"} THEN Ok(v)
    ELSE Err("ValidationError")

\* a str field, validated in pydantic's default (lax) mode: a str is taken as
\* it is, bytes are decoded, and coerce_numbers_to_str turns an int or a float
\* (not a bool) into its str()
ValidateStr(v, coerce) ==
    IF v.t = "str" THEN Ok(v)
    ELSE IF v.t = "bytes" THEN Ok(Str(v.v))
    ELSE IF coerce /\ v.t \in {"float", "int"} THEN Ok(Str(<<NumRepr(v)>>))
    ELSE Err("ValidationError")

ValidateAuthors_min_length_unchecked(v) ==
    IF v.t \in {"list", "tuple"}
       /\ \A i \in DOMAIN v.items : ValidateStr(v.items[i], FALSE).ok
    THEN Ok(List([i \in DOMAIN v.items |-> ValidateStr(v.items[i], FALSE).val]))
    ELSE Err("ValidationError")

\* authors: list[str], min_length=1, in lax mode: a list, or another iterable
\* that is not a str, bytes or a mapping (a tuple), becomes the list of its
\* elements, each validated as a str
ValidateAuthors(v) ==
    IF v.t \in {"list", "tuple"} /\ v.items # <<>>
       /\ \A i \in DOMAIN v.items : ValidateStr(v.items[i], FALSE).ok
    THEN Ok(List([i \in DOMAIN v.items |-> ValidateStr(v.items[i], FALSE).val]))
    ELSE Err("ValidationError")

\* the exceptions pydantic does not collect into a ValidationError: they leave
\* the validation at once
RawErrors == {"PathNotFound", "AttributeError"}

MinOf(S) == CHOOSE i \in S : \A j \in S : i <= j

\* the error of a validation that collected the results res: the first raw
\* exception if one was raised, else the ValidationError of the first failure
Collected(res) ==
    LET bad == {i \in DOMAIN res : ~res[i].ok}
        raw == {i \in bad : res[i].err \in RawErrors}
    IN  IF raw # {} THEN Err(res[MinOf(raw)].err) ELSE Err(res[MinOf(bad)].err)

AllOk(res) == \A i \in DOMAIN res : res[i].ok

\* PydanticKitfile.check_attrs: any() over every field of the model.  It runs
\* after __init__ has written the fields to the instance, which val keeps
check_attrs(m) ==
    IF ~\E e \in Keys(m.items) : Truthy(Get(m.items, e))
    THEN [ok |-> FALSE, err |-> "AttributeError", val |-> m]
    ELSE Ok(m)

\* Package.validate_authors
validate_authors(m) ==
    LET a == Get(m.items, "authors") IN
    IF a.t = "list" /\ \A i \in DOMAIN a.items : a.items[i].t = "str"
    THEN Ok(m)
    ELSE Err("ValidationError")

\* the mode="after" validators of a class, on an instance
AfterValidators(cls, m) ==
    IF cls \in PathClasses
    THEN LET p == Get(m.items, "path")
             r == validate_path(p.v)
         IN  IF r.ok
             THEN Ok([m EXCEPT !.items = Put(m.items, "path", Str(r.val)),
                               !.set = m.set \cup {"path"}])
             ELSE r
    ELSE IF cls = "Package" THEN validate_authors(m)
    ELSE check_attrs(m)

RECURSIVE ValidateModel(_, _)
RECURSIVE ValidateField(_, _)

\* cls.model_validate(raw), and the validation of a field annotated cls: an
\* instance is taken as it is (revalidate_instances is 'never') and the after
\* validators run on it; a dict is validated field by field
ValidateModel(cls, raw) ==
    IF raw.t = "model" /\ raw.cls = cls THEN AfterValidators(cls, raw)
    ELSE IF raw.t # "dict" THEN Err("ValidationError")
    ELSE LET fs == Schema(cls) IN
         With([i \in DOMAIN fs |->
                 IF Has(raw.items, fs[i].name)
                 THEN ValidateField(fs[i].kind, Get(raw.items, fs[i].name))
                 ELSE IF fs[i].required THEN Err("ValidationError")
                 ELSE Ok(fs[i].default)],
              LAMBDA res :
                 IF ~AllOk(res) THEN Collected(res)
                 ELSE AfterValidators(cls,
                        Model(cls, [i \in DOMAIN fs |-> <<fs[i].name, res[i].val>>],
                              {fs[i].name : i \in {j \in DOMAIN fs : Has(raw.items, fs[j].name)}})))

ValidateField(kind, v) ==
    CASE kind.k = "str" -> ValidateStr(v, kind.coerce)
      [] kind.k = "authors" -> ValidateAuthors(v)
      [] kind.k = "any" -> Ok(v)
      [] kind.k = "model" -> ValidateModel(kind.cls, v)
      [] kind.k = "optmodel" -> IF v.t = "none" THEN Ok(v) ELSE ValidateModel(kind.cls, v)
      [] kind.k = "list" ->
           IF v.t = "none" THEN Ok(v)
           ELSE IF v.t # "list" THEN Err("ValidationError")
           ELSE With([i \in DOMAIN v.items |-> ValidateModel(kind.cls, v.items[i])],
                     LAMBDA res :
                        IF ~AllOk(res) THEN Collected(res)
                        ELSE Ok(List([i \in DOMAIN v.items |-> res[i].val])))

(***************************************************************************)
(* Kitfile.build.                                                          *)
(***************************************************************************)
Arg(kwargs, k) == IF Has(kwargs.items, k) THEN Get(kwargs.items, k) ELSE None

\* [cls.model_validate(c) for c in v] if v is not None else []: the first
\* entry that fails ends the comprehension
BuildList(cls, v) ==
    IF v.t = "none" THEN Ok(List(<<>>))
    ELSE IF v.t \in {"list", "tuple", "dict", "str"}
    THEN LET items == IF v.t \in {"list", "tuple"} THEN v.items
                      ELSE [i \in DOMAIN v.items |-> None] IN
         With([i \in DOMAIN items |-> ValidateModel(cls, items[i])],
              LAMBDA res :
                 LET bad == {i \in DOMAIN res : ~res[i].ok} IN
                 IF bad # {} THEN Err(res[MinOf(bad)].err)
                 ELSE Ok(List([i \in DOMAIN items |-> res[i].val])))
    ELSE Err("TypeError")

\* ModelSection.model_validate(v) if v is not None else None
BuildModel(v) == IF v.t = "none" THEN Ok(v) ELSE ValidateModel("ModelSection", v)

\* self.build(**kwargs): the binding of the keyword arguments, the arguments of
\* super().__init__ in the order they are written, then the validation of the
\* Kitfile itself; the instance is written only when all of it succeeded
build(kwargs) ==
    IF ~(Keys(kwargs.items) \subseteq ALLOWED_KEYS)
       \/ ~({"manifestVersion", "package"} \subseteq Keys(kwargs.items))
    THEN Err("TypeError")
    ELSE With(<<Ok(Arg(kwargs, "manifestVersion")),
                ValidateModel("Package", Arg(kwargs, "package")),
                BuildList("CodeEntry", Arg(kwargs, "code")),
                BuildList("DatasetEntry", Arg(kwargs, "datasets")),
                BuildList("DocsEntry", Arg(kwargs, "docs")),
                BuildModel(Arg(kwargs, "model"))>>,
              LAMBDA args :
                 LET bad == {i \in DOMAIN args : ~args[i].ok}
                     names == FieldNames("Kitfile")
                 IN  IF bad # {} THEN Err(args[MinOf(bad)].err)
                     ELSE With(Dict([i \in DOMAIN names |-> <<names[i], args[i].val>>]),
                               LAMBDA super_kwargs : ValidateModel("Kitfile", super_kwargs)))

(***************************************************************************)
(* model_dump and the YAML codec.  A YAML text is its node tree, each      *)
(* scalar with its characters and whether it is written quoted; a text     *)
(* that does not parse is the parser's error, with or without a mark.      *)
(***************************************************************************)
\* BaseModel.model_dump(exclude_unset, exclude_none)
RECURSIVE model_dump(_, _, _)
model_dump(v, exclude_unset, exclude_none) ==
    CASE v.t = "model" ->
           LET keep == SelectSeq(v.items,
                         LAMBDA kv : /\ (exclude_unset => kv[1] \in v.set)
                                     /\ (exclude_none => kv[2].t # "none"))
           IN  Dict([i \in DOMAIN keep |->
                       <<keep[i][1], model_dump(keep[i][2], exclude_unset, exclude_none)>>])
      [] v.t = "list" ->
           List([i \in DOMAIN v.items |-> model_dump(v.items[i], exclude_unset, exclude_none)])
      [] v.t = "dict" ->
           Dict([i \in DOMAIN v.items |->
                   <<v.items[i][1], model_dump(v.items[i][2], exclude_unset, exclude_none)>>])
      [] OTHER -> v

\* the floats the model writes and reads
Floats == {Float(i, f) : i \in 0..2, f \in 0..1}

\* the plain scalars the YAML resolver does not read as a str
ResolvesToFloat(s) == \E x \in Floats : s = <<NumRepr(x)>>
ResolvesToNull(s) == s \in {<<"null">>, <<"~">>, <<>>}

Scalar(q, s) == [n |-> "scalar", q |-> q, s |-> s]

\* yaml.safe_dump(data, sort_keys=False, default_flow_style=False)
RECURSIVE safe_dump(_)
safe_dump(v) ==
    CASE v.t = "dict" ->
           [n |-> "map", items |-> [i \in DOMAIN v.items |-> <<v.items[i][1], safe_dump(v.items[i][2])>>]]
      [] v.t = "list" ->
           [n |-> "seq", items |-> [i \in DOMAIN v.items |-> safe_dump(v.items[i])]]
      [] v.t = "none" -> Scalar(FALSE, <<"null">>)
      [] v.t = "float" -> Scalar(FALSE, <<NumRepr(v)>>)
      [] v.t = "str" -> Scalar(ResolvesToFloat(v.v) \/ ResolvesToNull(v.v), v.v)

\* the constructor of yaml.safe_load on a node
RECURSIVE construct(_)
construct(node) ==
    CASE node.n = "map" ->
           Dict([i \in DOMAIN node.items |-> <<node.items[i][1], construct(node.items[i][2])>>])
      [] node.n = "seq" ->
           List([i \in DOMAIN node.items |-> construct(node.items[i])])
      [] node.n = "scalar" ->
           IF node.q THEN Str(node.s)
           ELSE IF ResolvesToNull(node.s) THEN None
           ELSE IF ResolvesToFloat(node.s)
                THEN CHOOSE x \in Floats : node.s = <<NumRepr(x)>>
                ELSE Str(node.s)

\* the files
NoFile == [kind |-> "absent"]
Doc(root) == [kind |-> "doc", root |-> root]
\* a text the parser rejects with a MarkedYAMLError at (line, column), 0-indexed
Marked(line, column) == [kind |-> "marked", line |-> line, column |-> column]
\* a text the reader rejects with a ReaderError, which has no problem_mark
Unmarked == [kind |-> "unmarked"]

NoText == [kind |-> "none"]

\* Kitfile.to_yaml on an instance
to_yaml(k, suppress_empty_values) ==
    IF k.t # "model" THEN Err("AttributeError")
    ELSE Ok(Doc(safe_dump(model_dump(k, suppress_empty_values, suppress_empty_values))))

\* the value of a call: what it raised ("ok" when it returned), the line and
\* column its message carries, the text it returned
Ret(op, err, line, column, out) ==
    [op |-> op, err |-> err, line |-> line, column |-> column, out |-> out]

\* the key check of load: any(ALLOWED_KEYS.difference(data.keys()))
load_keys_rejected(data) == ALLOWED_KEYS \ Keys(data.items) # {}

load_data_raw_mark(f) ==
    IF f.kind = "absent" THEN Ret("load", "PathNotFound", 0, 0, NoText)
    ELSE IF f.kind = "marked" THEN Ret("load", "ParseError", f.line, f.column, NoText)
    ELSE IF f.kind = "unmarked" THEN Ret("load", "ReaderError", 0, 0, NoText)
    ELSE IF construct(f.root).t # "dict" THEN Ret("load", "AttributeError", 0, 0, NoText)
    ELSE IF load_keys_rejected(construct(f.root)) THEN Ret("load", "AllowedKeys", 0, 0, NoText)
    ELSE Ret("load", "ok", 0, 0, NoText)

\* Kitfile.load up to its call of build: the error raised before it, or the
\* mapping handed to build
load_data(f) ==
    IF f.kind = "absent" THEN Ret("load", "PathNotFound", 0, 0, NoText)
    ELSE IF f.kind = "marked" THEN Ret("load", "ParseError", f.line + 1, f.column + 1, NoText)
    ELSE IF f.kind = "unmarked" THEN Ret("load", "ReaderError", 0, 0, NoText)
    ELSE LET data == construct(f.root) IN
         IF data.t # "dict" THEN Ret("load", "AttributeError", 0, 0, NoText)
         ELSE IF load_keys_rejected(data) THEN Ret("load", "AllowedKeys", 0, 0, NoText)
         ELSE Ret("load", "ok", 0, 0, NoText)

commit_cleared_first(k, r) == IF r.ok THEN r.val ELSE [t |-> "uninit", items |-> <<>>]

\* the instance after a call that validated to r: __init__ writes the fields
\* once their validation succeeded, and not before
commit(k, r) == IF "val" \in DOMAIN r THEN r.val ELSE k

ErrOf(r) == IF r.ok THEN "ok" ELSE r.err

\* Kitfile.load on the instance k with the file f
load(k, f) ==
    LET pre == load_data(f) IN
    IF pre.err # "ok" THEN [kit |-> k, ret |-> pre]
    ELSE With(construct(f.root),
              LAMBDA data :
                 With(build(data),
                      LAMBDA r : [kit |-> commit(k, r), ret |-> Ret("load", ErrOf(r), 0, 0, NoText)]))

\* Kitfile(): BaseModel.__init__ is not called, the instance has an empty
\* __dict__ and no __pydantic_fields_set__
Uninit == [t |-> "uninit", items |-> <<>>]

(***************************************************************************)
(* The inputs.                                                             *)
(***************************************************************************)
S(x) == Str(<<x>>)

GoodRel == <<"m">>
AbsIn == <<"/", "w", "m">>
AbsOut == <<"/", "o">>
Missing == <<"x">>
\* the paths that are wrong in some way
FaultPaths == {AbsIn, AbsOut, Missing}

\* an entry of class cls as the caller writes it: a dict with every field
RawEntry(cls, p) ==
    LET fs == Schema(cls) IN
    Dict([i \in DOMAIN fs |-> <<fs[i].name, IF fs[i].name = "path" THEN Str(p) ELSE S("d")>>])

RawPackage(authors) ==
    Dict(<<<<"name", S("p")>>, <<"version", S("0.1.0")>>, <<"description", S("d")>>,
           <<"authors", authors>>>>)

GoodPackage == RawPackage(List(<<S("Ada"), S("Grace")>>))

\* a model section at p; parts is a list of part paths, or NoParts to leave
\* the key out
NoParts == <<<<"-">>>>
RawSection(p, parts) ==
    LET base == <<<<"name", S("n")>>, <<"path", Str(p)>>, <<"framework", S("onnx")>>,
                  <<"version", S("2.0.0")>>, <<"description", S("d")>>,
                  <<"license", S("MIT")>>>>
    IN  Dict(IF parts = NoParts THEN base
             ELSE Append(base, <<"parts",
                    List([i \in DOMAIN parts |-> RawEntry("ModelPart", parts[i])])>>))

\* the lists of paths of a section: left out, empty, or MaxEntries good entries
GoodPaths(n) == [i \in 1..n |-> GoodRel]
PathLists == {NoParts, GoodPaths(0), GoodPaths(MaxEntries)}

\* a shape: the paths of every section (model: the section's own path first,
\* NoParts for no model; parts as above)
Shapes ==
    [code : PathLists, datasets : PathLists, docs : PathLists,
     model : {NoParts, <<GoodRel>>}, parts : PathLists]

\* one fault at most in an input: a wrong path at one place, a wrong
\* manifestVersion or a wrong package
NoFault == [at |-> "none", i |-> 0, v |-> None]
Faults ==
    {NoFault}
    \cup {[at |-> a, i |-> i, v |-> Str(p)] :
            a \in {"code", "datasets", "docs", "model", "parts"}, i \in 1..MaxEntries,
            p \in FaultPaths}
    \cup {[at |-> "manifestVersion", i |-> 0, v |-> x] : x \in {Float(1, 0), None}}
    \cup {[at |-> "package", i |-> 0, v |-> RawPackage(a)] :
            a \in {List(<<>>), S("not-a-list")}}

\* the paths of section a under the fault f
Faulted(paths, a, f) ==
    IF paths = NoParts THEN paths
    ELSE [i \in DOMAIN paths |-> IF f.at = a /\ f.i = i THEN f.v.v ELSE paths[i]]

ListArg(name, cls, paths) ==
    IF paths = NoParts THEN <<>>
    ELSE <<<<name, List([i \in DOMAIN paths |-> RawEntry(cls, paths[i])])>>>>

\* the keyword arguments of build for a shape and a fault
Kwargs(sh, f) ==
    Dict(<<<<"manifestVersion", IF f.at = "manifestVersion" THEN f.v ELSE S("1.0")>>,
           <<"package", IF f.at = "package" THEN f.v ELSE GoodPackage>>>>
         \o ListArg("code", "CodeEntry", Faulted(sh.code, "code", f))
         \o ListArg("datasets", "DatasetEntry", Faulted(sh.datasets, "datasets", f))
         \o ListArg("docs", "DocsEntry", Faulted(sh.docs, "docs", f))
         \o (IF sh.model = NoParts THEN <<>>
             ELSE <<<<"model", RawSection(Faulted(sh.model, "model", f)[1],
                                          Faulted(sh.parts, "parts", f))>>>>))

BuildInputs ==
    {Kwargs(sh, f) : sh \in {x \in Shapes : x.model # NoParts \/ x.parts = NoParts},
                     f \in Faults}

\* what build makes of the inputs; the instance and the outcome of a call of
\* build depend on its kwargs through this value alone
BuildOutcomes == {build(d) : d \in BuildInputs}

\* the texts the environment writes to the Kitfile's path
FullKwargs ==
    Dict(<<<<"manifestVersion", Float(1, 0)>>, <<"package", GoodPackage>>,
           <<"code", None>>, <<"datasets", List(<<>>)>>,
           <<"docs", List(<<RawEntry("DocsEntry", GoodRel)>>)>>,
           <<"model", RawSection(AbsIn, NoParts)>>>>)
EmptyKwargs ==
    Dict(<<<<"manifestVersion", S("1.0")>>, <<"package", GoodPackage>>,
           <<"code", List(<<>>)>>, <<"datasets", List(<<>>)>>,
           <<"docs", List(<<>>)>>, <<"model", None>>>>)
DocsOnlyKwargs ==
    Dict(<<<<"manifestVersion", S("1.0")>>, <<"package", GoodPackage>>,
           <<"docs", List(<<RawEntry("DocsEntry", GoodRel)>>)>>>>)
WithExtra(d) == Dict(Append(d.items, <<"extra", S("e")>>))

EnvTexts ==
    {NoFile, Unmarked, Marked(0, 18), Marked(2, 0), Doc(safe_dump(List(<<>>)))}
    \cup {Doc(safe_dump(d)) :
            d \in {FullKwargs, EmptyKwargs, DocsOnlyKwargs,
                   WithExtra(FullKwargs), WithExtra(DocsOnlyKwargs)}}

\* the assignments kitfile.<name> = value of the callers
Assignments == {<<"model", None>>}
\* the assignments kitfile.<name>.<sub> = value
NestedAssignments == {<<"package", "authors", List(<<>>)>>}

NoArg == [cls |-> "none", path |-> <<>>]

(***************************************************************************)
(* The operations.                                                         *)
(***************************************************************************)
Init ==
    /\ kit = Uninit
    /\ file = NoFile
    /\ ret = Ret("init", "ok", 0, 0, NoText)
    /\ arg = NoArg

\* kitfile = Kitfile()
New ==
    /\ kit' = Uninit
    /\ ret' = Ret("init", "ok", 0, 0, NoText)
    /\ UNCHANGED <<file, arg>>

\* kitfile = Kitfile(path): load on a new instance; when it raises, the
\* caller's name is not bound again
NewFromPath ==
    \E r \in {load(Uninit, file)} :
        /\ kit' = IF r.ret.err = "ok" THEN r.kit ELSE kit
        /\ ret' = [r.ret EXCEPT !.op = "init"]
        /\ UNCHANGED <<file, arg>>

\* kitfile.build(**d)
Build ==
    \E r \in BuildOutcomes :
        /\ kit' = commit(kit, r)
        /\ ret' = Ret("build", ErrOf(r), 0, 0, NoText)
        /\ UNCHANGED <<file, arg>>

\* kitfile.load(path)
Load ==
    \E r \in {load(kit, file)} :
        /\ kit' = r.kit
        /\ ret' = r.ret
        /\ UNCHANGED <<file, arg>>

\* kitfile.to_yaml(suppress_empty_values)
ToYaml ==
    \E suppress \in BOOLEAN :
        \E r \in {to_yaml(kit, suppress)} :
            /\ ret' = Ret(IF suppress THEN "to_yaml" ELSE "to_yaml(False)", ErrOf(r), 0, 0,
                          IF r.ok THEN r.val ELSE NoText)
            /\ UNCHANGED <<kit, file, arg>>

\* kitfile.save(path): to_yaml() is evaluated before the file is written
Save ==
    \E r \in {to_yaml(kit, TRUE)} :
        /\ file' = IF r.ok THEN r.val ELSE file
        /\ ret' = Ret("save", ErrOf(r), 0, 0, NoText)
        /\ UNCHANGED <<kit, arg>>

\* BaseModel.__setattr__ with validate_assignment off: the value goes into
\* __dict__ as it is, then the name into __pydantic_fields_set__, which an
\* instance that was never initialised does not have
setattr(m, name, value) ==
    IF m.t = "model"
    THEN Ok([m EXCEPT !.items = Put(m.items, name, value), !.set = m.set \cup {name}])
    ELSE [ok |-> FALSE, err |-> "AttributeError",
          val |-> [m EXCEPT !.items = Put(m.items, name, value)]]

\* kitfile.<name> = value
SetAttr ==
    \E a \in Assignments :
        LET r == setattr(kit, a[1], a[2]) IN
        /\ kit' = r.val
        /\ ret' = Ret("setattr", ErrOf(r), 0, 0, NoText)
        /\ UNCHANGED <<file, arg>>

\* kitfile.<name>.<sub> = value
SetNestedAttr ==
    \E a \in NestedAssignments :
        LET has == Has(kit.items, a[1]) /\ Get(kit.items, a[1]).t = "model"
            r == IF has THEN setattr(Get(kit.items, a[1]), a[2], a[3])
                 ELSE Err("AttributeError")
        IN  /\ kit' = IF has THEN [kit EXCEPT !.items = Put(kit.items, a[1], r.val)] ELSE kit
            /\ ret' = Ret("setattr", ErrOf(r), 0, 0, NoText)
            /\ UNCHANGED <<file, arg>>

\* the environment writes, or removes, the file
WriteFile ==
    \E t \in EnvTexts :
        /\ file' = t
        /\ ret' = Ret("write", "ok", 0, 0, NoText)
        /\ UNCHANGED <<kit, arg>>

Next ==
    \/ New
    \/ NewFromPath
    \/ Build
    \/ Load
    \/ ToYaml
    \/ Save
    \/ SetAttr
    \/ SetNestedAttr
    \/ WriteFile

Spec == Init /\ [][Next]_vars

(***************************************************************************)
(* The path resolver alone: an entry of each class at each path, built     *)
(* into a Kitfile and validated again.                                     *)
(***************************************************************************)
Components == {"w", "m", "o", "x", ".."}
RelativePaths == UNION {[1..n -> Components] : n \in 0..MaxPathLen}
ProbePaths == RelativePaths \cup {<<"/">> \o p : p \in RelativePaths}
ProbeArgs == [cls : PathClasses, path : ProbePaths]

\* the keyword arguments of build with one entry of class a.cls at a.path
ProbeKwargs(a) ==
    Dict(<<<<"manifestVersion", S("1.0")>>, <<"package", GoodPackage>>,
           CASE a.cls = "CodeEntry" -> <<"code", List(<<RawEntry(a.cls, a.path)>>)>>
             [] a.cls = "DatasetEntry" -> <<"datasets", List(<<RawEntry(a.cls, a.path)>>)>>
             [] a.cls = "DocsEntry" -> <<"docs", List(<<RawEntry(a.cls, a.path)>>)>>
             [] a.cls = "ModelSection" -> <<"model", RawSection(a.path, NoParts)>>
             [] a.cls = "ModelPart" -> <<"model", RawSection(GoodRel, <<a.path>>)>>>>)

InitPath ==
    /\ kit = Uninit
    /\ file = NoFile
    /\ ret = Ret("init", "ok", 0, 0, NoText)
    /\ arg \in ProbeArgs

\* kitfile.build(**ProbeKwargs(arg)) on the new instance
Probe ==
    /\ ret.op = "init"
    /\ \E r \in {build(ProbeKwargs(arg))} :
          /\ kit' = commit(kit, r)
          /\ ret' = Ret("build", ErrOf(r), 0, 0, NoText)
    /\ UNCHANGED <<file, arg>>

\* kitfile.build(manifestVersion=kitfile.manifestVersion, ..., model=kitfile.model):
\* the instances of the entries are validated again
Rebuild ==
    /\ kit.t = "model"
    /\ \E r \in {build(Dict(kit.items))} :
          /\ kit' = commit(kit, r)
          /\ ret' = Ret("rebuild", ErrOf(r), 0, 0, NoText)
    /\ UNCHANGED <<file, arg>>

NextPath == Probe \/ Rebuild

SpecPath == InitPath /\ [][NextPath]_vars

(***************************************************************************)
(* The field validators alone: a Kitfile built of one value for each       *)
(* version field, for authors and for the model's parameters, and          *)
(* serialized.                                                             *)
(***************************************************************************)
MaxAuthors == 2

\* what a caller, or a YAML text, gives for a version
VersionValues == {S("1.0"), Float(1, 0), Integer(2), Bool(TRUE), None}

\* what it gives for an element of authors
AuthorValues == {S("Ada"), S("Grace"), Bytes(<<"Bob">>), Integer(1)}
AuthorSeqs == UNION {[1..n -> AuthorValues] : n \in 0..MaxAuthors}
AuthorsValues ==
    {List(a) : a \in AuthorSeqs} \cup {Tuple(a) : a \in AuthorSeqs}
    \cup {S("not-a-list"), None, Dict(<<>>)}

\* what it gives for parameters: mappings with their keys in insertion order
Param(k1, k2) == Dict(<<<<k1, S("x")>>, <<k2, Float(0, 1)>>>>)
ParamValues ==
    {None, S("x"), Param("a", "b"), Param("b", "a"),
     Dict(<<<<"d", List(<<Param("c", "a")>>)>>, <<"b", Param("a", "c")>>>>)}

GoodFields ==
    [mv |-> S("1.0"), pv |-> S("0.1.0"), sv |-> S("2.0.0"),
     authors |-> List(<<S("Ada"), S("Grace")>>), params |-> None]

\* the inputs: the three versions together, authors, parameters
FieldArgs ==
    {[GoodFields EXCEPT !.mv = a, !.pv = b, !.sv = c] :
        a \in VersionValues, b \in VersionValues, c \in VersionValues}
    \cup {[GoodFields EXCEPT !.authors = a] : a \in AuthorsValues}
    \cup {[GoodFields EXCEPT !.params = x, !.mv = v] :
            x \in ParamValues, v \in {S("1.0"), Float(1, 0)}}

\* the keyword arguments of build with the values of a
FieldKwargs(a) ==
    Dict(<<<<"manifestVersion", a.mv>>,
           <<"package",
             Dict(<<<<"name", S("p")>>, <<"version", a.pv>>, <<"description", S("d")>>,
                    <<"authors", a.authors>>>>)>>,
           <<"docs", List(<<RawEntry("DocsEntry", GoodRel)>>)>>,
           <<"model",
             Dict(<<<<"parameters", a.params>>, <<"name", S("n")>>, <<"path", Str(GoodRel)>>,
                    <<"framework", S("onnx")>>, <<"version", a.sv>>,
                    <<"description", S("d")>>, <<"license", S("MIT")>>>>)>>>>)

InitFields ==
    /\ kit = Uninit
    /\ file = NoFile
    /\ ret = Ret("init", "ok", 0, 0, NoText)
    /\ arg \in FieldArgs

\* kitfile.build(**FieldKwargs(arg)) on the new instance
BuildFields ==
    /\ ret.op = "init"
    /\ \E r \in {build(FieldKwargs(arg))} :
          /\ kit' = commit(kit, r)
          /\ ret' = Ret("build", ErrOf(r), 0, 0, NoText)
    /\ UNCHANGED <<file, arg>>

\* kitfile.to_yaml(suppress_empty_values)
DumpFields ==
    /\ ret.op = "build"
    /\ \E suppress \in BOOLEAN :
          \E r \in {to_yaml(kit, suppress)} :
             ret' = Ret(IF suppress THEN "to_yaml" ELSE "to_yaml(False)", ErrOf(r), 0, 0,
                        IF r.ok THEN r.val ELSE NoText)
    /\ UNCHANGED <<kit, file, arg>>

NextFields == BuildFields \/ DumpFields

SpecFields == InitFields /\ [][NextFields]_vars

(***************************************************************************)
(* The claims.                                                             *)
(***************************************************************************)
HasContent(k) == \E e \in {"code", "datasets", "docs", "model"} : Truthy(Get(k.items, e))

\* k is a Manifest as build made it of one of the inputs
Built(k) == Ok(k) \in BuildOutcomes

\* the mapping the file holds
FileData == construct(file.root)
FileIsMapping == file.kind = "doc" /\ file.root.n = "map"

\* C1: a build or load that succeeds leaves a Manifest with at least one of
\* code, datasets, docs, model non-empty: an input without content is rejected
C1_BuildRejectsEmptyContent ==
    (ret.op \in {"build", "load"} /\ ret.err = "ok") => HasContent(kit)

\* C2: the load of a mapping with a key outside ALLOWED_KEYS raises the
\* allowed-keys error, whatever recognized keys are there too
C2_UnknownKeyIsAllowedKeysError ==
    (ret.op = "load" /\ FileIsMapping /\ ~(Keys(FileData.items) \subseteq ALLOWED_KEYS))
        => ret.err = "AllowedKeys"

\* C3: a built Manifest that is saved and loaded again loads, and is the
\* Manifest it was
C3_RoundTrip ==
    [][(ret.op = "save" /\ ret.err = "ok" /\ Built(kit) /\ ret'.op = "load")
          => (ret'.err = "ok" /\ kit' = kit)]_vars

\* C4: to_yaml() of a built Manifest has no key of a field that was not set
\* or is null or empty; to_yaml(False) has the key of every field
C4_SuppressEmpty ==
    (ret.err = "ok" /\ Built(kit)) =>
        /\ ret.op = "to_yaml" =>
              \A i \in DOMAIN kit.items :
                  (kit.items[i][1] \notin kit.set \/ ~Truthy(kit.items[i][2]))
                      => kit.items[i][1] \notin Keys(ret.out.root.items)
        /\ ret.op = "to_yaml(False)" => Keys(ret.out.root.items) = Keys(kit.items)

\* C5: the load of a mapping of recognized keys that build accepts, with
\* content, succeeds when optional keys are left out, and every key left out
\* has its default
C5_OptionalKeysMayBeOmitted ==
    (ret.op = "load" /\ FileIsMapping
       /\ Keys(FileData.items) \subseteq ALLOWED_KEYS
       /\ build(FileData).ok /\ HasContent(build(FileData).val))
        => /\ ret.err = "ok"
           /\ \A k \in {"code", "datasets", "docs"} \ Keys(FileData.items) :
                  Get(kit.items, k) = List(<<>>)
           /\ "model" \notin Keys(FileData.items) => Get(kit.items, "model") = None

\* C6: an assignment that went through left a Manifest that validates
C6_AssignmentIsValidated ==
    (ret.op = "setattr" /\ ret.err = "ok") => build(model_dump(kit, FALSE, FALSE)).ok

\* C7: a build or load that fails leaves the instance as it was, and one that
\* succeeds leaves an instance with all six fields
C7_FailedIngestLeavesInstance ==
    [][/\ (ret'.op \in {"build", "load"} /\ ret'.err # "ok") => kit' = kit
       /\ (ret'.op \in {"build", "load"} /\ ret'.err = "ok")
             => (kit'.t = "model" /\ Keys(kit'.items) = ALLOWED_KEYS /\ kit'.set = ALLOWED_KEYS)]_vars

\* a load failed on an instance that held a Manifest
C7_Witness == ret.op = "load" /\ ret.err = "PathNotFound" /\ file = NoFile /\ kit.t = "model"

\* the path p designates something in the working directory
Contained(p) == Resolve(p).ok /\ IsRelativeTo(<<"/">> \o Resolve(p).dir, Cwd)

\* C8 as stated: a path that does not exist is PathNotFound, an absolute one
\* that exists and is not contained in the working directory is InvalidPath,
\* and the build leaves no Manifest
C8_PathRejectionContained ==
    ret.op = "build" =>
        /\ ~Exists(arg.path) => (ret.err = "PathNotFound" /\ kit = Uninit)
        /\ (Exists(arg.path) /\ IsAbsolute(arg.path) /\ ~Contained(arg.path))
              => (ret.err = "InvalidPath" /\ kit = Uninit)

\* C8, amended: a path that does not exist is PathNotFound, an absolute one
\* that exists and whose parts do not begin with the working directory's is
\* InvalidPath, and the build leaves no Manifest
C8_PathRejectionLexical ==
    ret.op = "build" =>
        /\ ~Exists(arg.path) => (ret.err = "PathNotFound" /\ kit = Uninit)
        /\ (Exists(arg.path) /\ IsAbsolute(arg.path)
              /\ (Len(arg.path) < Len(Cwd) \/ \E i \in DOMAIN Cwd : arg.path[i] # Cwd[i]))
              => (ret.err = "InvalidPath" /\ kit = Uninit)

\* a model part outside the working directory made the build fail
C8_Witness ==
    /\ ret.op = "build" /\ ret.err = "InvalidPath"
    /\ arg = [cls |-> "ModelPart", path |-> AbsOut] /\ kit = Uninit

\* the path of the entry of class cls in the Manifest k
Stored(k, cls) ==
    CASE cls = "CodeEntry" -> Get(Get(k.items, "code").items[1].items, "path")
      [] cls = "DatasetEntry" -> Get(Get(k.items, "datasets").items[1].items, "path")
      [] cls = "DocsEntry" -> Get(Get(k.items, "docs").items[1].items, "path")
      [] cls = "ModelSection" -> Get(Get(k.items, "model").items, "path")
      [] cls = "ModelPart" ->
           Get(Get(Get(k.items, "model").items, "parts").items[1].items, "path")

\* stored is p relative to the working directory
IsRewritten(p, stored) == Cwd \o stored = p \/ (stored = <<".">> /\ p = Cwd)

\* C9 as stated: an existing absolute path in the working directory is stored
\* relative to it, an existing relative one as it is, validating again changes
\* nothing, and no stored path is absolute
C9_NormalizationContained ==
    ret.op \in {"build", "rebuild"} =>
        /\ (Exists(arg.path) /\ IsAbsolute(arg.path) /\ Contained(arg.path))
              => (ret.err = "ok" /\ IsRewritten(arg.path, Stored(kit, arg.cls).v))
        /\ (Exists(arg.path) /\ ~IsAbsolute(arg.path))
              => (ret.err = "ok" /\ Stored(kit, arg.cls) = Str(arg.path))
        /\ ret.err = "ok" => ~IsAbsolute(Stored(kit, arg.cls).v)
        /\ ret.op = "rebuild" => ret.err = "ok"

\* C9, amended: an existing absolute path whose parts begin with the working
\* directory's is stored as the rest of its parts, an existing relative one
\* as it is, validating again changes nothing, and no stored path is absolute
C9_NormalizationLexical ==
    ret.op \in {"build", "rebuild"} =>
        /\ (Exists(arg.path) /\ IsAbsolute(arg.path)
              /\ Len(arg.path) >= Len(Cwd) /\ \A i \in DOMAIN Cwd : arg.path[i] = Cwd[i])
              => (ret.err = "ok" /\ IsRewritten(arg.path, Stored(kit, arg.cls).v))
        /\ (Exists(arg.path) /\ ~IsAbsolute(arg.path))
              => (ret.err = "ok" /\ Stored(kit, arg.cls) = Str(arg.path))
        /\ ret.err = "ok" => ~IsAbsolute(Stored(kit, arg.cls).v)
        /\ ret.op = "rebuild" => ret.err = "ok"

\* <cwd>/m was stored as m, and validated again
C9_Witness ==
    /\ ret.op = "rebuild" /\ ret.err = "ok"
    /\ arg = [cls |-> "DatasetEntry", path |-> AbsIn]
    /\ Stored(kit, "DatasetEntry") = Str(<<"m">>)

\* C10 as stated: load of a missing file is PathNotFound, load of a text that
\* is not YAML is a ParseError with the 1-indexed line and column, and the
\* other errors come after a parse that succeeded
C10_LoadErrors ==
    ret.op = "load" =>
        /\ file.kind = "absent" => ret.err = "PathNotFound"
        /\ file.kind = "marked"
              => (ret.err = "ParseError" /\ ret.line = file.line + 1 /\ ret.column = file.column + 1)
        /\ file.kind = "unmarked"
              => (ret.err = "ParseError" /\ ret.line >= 1 /\ ret.column >= 1)
        /\ ret.err \notin {"PathNotFound", "ParseError"} => file.kind = "doc"

\* C10, amended: load of a missing file is PathNotFound, load of a text the
\* parser rejects with a problem mark is a ParseError with the mark's line + 1
\* and column + 1, load of a text it rejects without a mark raises the
\* parser's own exception, and the other errors come after a parse that
\* succeeded
C10_LoadErrorsMarked ==
    ret.op = "load" =>
        /\ file.kind = "absent" => ret.err = "PathNotFound"
        /\ file.kind = "marked"
              => (ret.err = "ParseError" /\ ret.line = file.line + 1 /\ ret.column = file.column + 1)
        /\ file.kind = "unmarked" => ret.err = "ReaderError"
        /\ ret.err \notin {"PathNotFound", "ParseError", "ReaderError"} => file.kind = "doc"

\* a text with an error at line 0, column 18 was loaded
C10_Witness ==
    /\ ret.op = "load" /\ file = Marked(0, 18)
    /\ ret.err = "ParseError" /\ ret.line = 1 /\ ret.column = 19

\* the values build was given with every field but the versions valid
VersionsProbed == arg.authors = GoodFields.authors /\ arg.params = None
\* the string form of the numbers given
StringForm(v) ==
    CASE v = Float(1, 0) -> S("1.0")
      [] v = Integer(2) -> S("2")
      [] OTHER -> v
StoredVersions(k) ==
    <<Get(k.items, "manifestVersion"), Get(Get(k.items, "package").items, "version"),
      Get(Get(k.items, "model").items, "version")>>
GivenVersions == <<arg.mv, arg.pv, arg.sv>>

\* C11: manifestVersion, Package.version and ModelSection.version each take a
\* string or a number; a number is stored as its string form, a string as it
\* is, and after a build that succeeded the three hold strings
C11_NumericCoercion ==
    ret.op = "build" =>
        /\ (VersionsProbed /\ \A i \in 1..3 : GivenVersions[i].t \in {"str", "int", "float"})
              => ret.err = "ok"
        /\ ret.err = "ok" =>
              \A i \in 1..3 :
                  /\ StoredVersions(kit)[i].t = "str"
                  /\ GivenVersions[i].t \in {"str", "int", "float"}
                        => StoredVersions(kit)[i] = StringForm(GivenVersions[i])

\* the float 1.0 and the int 2 were given as versions, and stored as strings
C11_Witness ==
    /\ ret.op = "build" /\ ret.err = "ok"
    /\ GivenVersions = <<Float(1, 0), Integer(2), Float(1, 0)>>
    /\ StoredVersions(kit) = <<S("1.0"), S("2"), S("1.0")>>

\* the values build was given with every field but authors valid
AuthorsProbed ==
    arg.mv = GoodFields.mv /\ arg.pv = GoodFields.pv /\ arg.sv = GoodFields.sv
StoredAuthors(k) == Get(Get(k.items, "package").items, "authors")

Alphabet == <<"a", "b", "c", "d">>
Pos(seq, x) == CHOOSE i \in DOMAIN seq : seq[i] = x
\* the keys of the mapping node are in the order of seq
KeysInOrder(node, seq) ==
    \A i, j \in DOMAIN node.items :
        i < j => Pos(seq, node.items[i][1]) < Pos(seq, node.items[j][1])
\* every mapping of the node tree has its keys in alphabetical order
RECURSIVE SortedMaps(_)
SortedMaps(node) ==
    CASE node.n = "map" ->
           /\ KeysInOrder(node, Alphabet)
           /\ \A i \in DOMAIN node.items : SortedMaps(node.items[i][2])
      [] node.n = "seq" -> \A i \in DOMAIN node.items : SortedMaps(node.items[i])
      [] OTHER -> TRUE

\* C13: to_yaml writes every mapping inside model.parameters with its keys
\* sorted, whatever their insertion order, and the fields of the Kitfile and
\* of its entries in the order the schema declares them
C13_ParametersSorted ==
    (ret.op \in {"to_yaml", "to_yaml(False)"} /\ ret.err = "ok" /\ arg \in FieldArgs) =>
        LET root == ret.out.root
            model == Get(root.items, "model")
        IN  /\ KeysInOrder(root, FieldNames("Kitfile"))
            /\ KeysInOrder(Get(root.items, "package"), FieldNames("Package"))
            /\ KeysInOrder(model, FieldNames("ModelSection"))
            /\ \A i \in DOMAIN Get(root.items, "docs").items :
                   KeysInOrder(Get(root.items, "docs").items[i], FieldNames("DocsEntry"))
            /\ Has(model.items, "parameters") => SortedMaps(Get(model.items, "parameters"))

====
